---- MODULE Spec2Model ----
(***************************************************************************)
(* docQuest: the document analysis pipeline (utils/pdf_processing.py,      *)
(* utils/llm_interaction.py), the page classifier in its two variants, and *)
(* the question/answer session of main.py with azure_api.py.               *)
(***************************************************************************)
EXTENDS Integers, Sequences, FiniteSets, Bags, TLC

VARIABLES
    mode,               \* which part of the program this behaviour exercises
    file,               \* the uploaded file: [name, kind, total_pages, layout]
    backend,            \* behaviour of the model backend for summarize_page
    pc,                 \* position of process_pdf_pages
    doc_open,           \* pdf_document is open (fitz.open done, close not yet)
    system_prompt_data, \* value returned by generate_system_prompt
    system_prompt,      \* the system prompt dict built by process_pdf_pages
    page_batches,       \* the list of page ranges
    futures,            \* per batch: "running", "finished"
    w_pos,              \* per batch: index of the next page of the loop
    previous_summary,   \* per batch: the local previous_summary
    batch_data,         \* per batch: the local batch_data list
    collected,          \* batches yielded by as_completed, in that order
    pages,              \* document_data["pages"]
    result,             \* what process_pdf_pages returned or raised
    summarize_calls,    \* per batch: arguments of the summarize_page calls
    explain_calls,      \* bag of the page numbers get_image_explanation was called for
    faults,             \* failures injected so far
    cls,                \* classifier run: inputs and the two variants' results
    part,               \* partition run: total_pages and batches built
    documents,          \* st.session_state.documents
    chat_history,       \* st.session_state.chat_history
    last_call,          \* outcome of the last handle_question call
    payloads,           \* prompt payloads built by ask_question, in call order
    script              \* main.py: the run of the upload loop

vars == <<mode, file, backend, pc, doc_open, system_prompt_data, system_prompt,
          page_batches, futures, w_pos, previous_summary, batch_data, collected,
          pages, result, summarize_calls, explain_calls, faults, cls, part,
          documents, chat_history, last_call, payloads, script>>

pipelineVars == <<file, backend, pc, doc_open, system_prompt_data, system_prompt,
                  page_batches, futures, w_pos, previous_summary, batch_data,
                  collected, pages, result, summarize_calls, explain_calls, faults>>

chatVars == <<documents, chat_history, last_call, payloads, script>>

----------------------------------------------------------------------------
(* Bounds of the model *)

MaxPages == 6           \* largest document processed by the pipeline
MaxFaults == 2          \* failures injected into one pipeline run
MaxPartitionPages == 60 \* largest page count the partition is computed for
MaxTextArea == 10       \* largest summed text-block area of a page
MaxTurns == 3           \* questions asked in one chat session
MaxUploads == 2         \* files in the uploader at once

----------------------------------------------------------------------------
(* Small helpers *)

Min(a, b) == IF a < b THEN a ELSE b

Range(s) == {s[i] : i \in 1..Len(s)}

\* range(lo, hi) as the sequence lo, lo+1, ..., hi-1
PyRange(lo, hi) == [i \in 1..(IF hi > lo THEN hi - lo ELSE 0) |-> lo + i - 1]

NoneVal == "None"

----------------------------------------------------------------------------
(* The page classifier *)

\* text_coverage as an exact fraction <<numerator, denominator>>
TextCoverage(text_area, page_area) ==
    IF page_area > 0 THEN <<text_area, page_area>> ELSE <<0, 1>>

\* a < b for fractions with positive denominators
FracLess(a, b) == a[1] * b[2] < b[1] * a[2]

\* ocr_text_threshold values the code uses: 0.4 (utils default), 0.1 (legacy
\* default), 0.18 (legacy call sites); 0 is the degenerate configuration
Thresholds == {<<4, 10>>, <<1, 10>>, <<18, 100>>, <<0, 1>>}

DefaultThreshold == <<4, 10>>

PageAreas == {0, 10, 50}

\* What the classifier reads from a page
PageFeatures ==
    [images : 0..1, drawings : BOOLEAN, text_nonempty : BOOLEAN,
     page_area : PageAreas, text_area : 0..MaxTextArea, render_fails : BOOLEAN]

\* mutant: non-strict comparison of the coverage with the threshold
DetectNonStrict(page, thr) ==
    IF page.render_fails THEN NoneVal
    ELSE IF (page.images > 0 \/ page.drawings)
            /\ ~FracLess(thr, TextCoverage(page.text_area, page.page_area))
         THEN "base64_image" ELSE NoneVal

\* mutant: a page without text area is flagged whatever it contains
DetectZeroTextArea(page, thr) ==
    IF page.render_fails THEN NoneVal
    ELSE IF page.text_area = 0
            \/ ((page.images > 0 \/ page.drawings)
                /\ FracLess(TextCoverage(page.text_area, page.page_area), thr))
         THEN "base64_image" ELSE NoneVal

\* utils/pdf_processing.py: the image data, or None (also on any exception)
detect_ocr_images_and_vector_graphics_in_pdf(page, thr) ==
    IF page.render_fails THEN NoneVal
    ELSE IF (page.images > 0 \/ page.drawings)
            /\ FracLess(TextCoverage(page.text_area, page.page_area), thr)
         THEN "base64_image" ELSE NoneVal

\* pdf_processing.py (older variant): no try/except, no guard on page_area
detect_legacy(page, thr) ==
    IF (page.images > 0 \/ page.drawings) /\ page.text_nonempty
    THEN IF page.page_area = 0 THEN "raised"
         ELSE IF FracLess(<<page.text_area, page.page_area>>, thr)
              THEN IF page.render_fails THEN "raised" ELSE "base64_image"
              ELSE NoneVal
    ELSE NoneVal

----------------------------------------------------------------------------
(* generate_system_prompt and the system prompt of a document *)

PersonaFields ==
    {"document", "domain", "subject", "expertise", "qualification", "style",
     "tone", "voice"}

AerospacePersona ==
    [document |-> "example_document", domain |-> "Aerospace engineering",
     subject |-> "aerodynamics", expertise |-> "technical",
     qualification |-> "Master in Aerospace engineering",
     style |-> "Professional", tone |-> "Formal", voice |-> "neutral"]

LegalPersona ==
    [document |-> "contract", domain |-> "Law", subject |-> "contracts",
     expertise |-> "legal", qualification |-> "Juris Doctor",
     style |-> "Formal", tone |-> "Neutral", voice |-> "third-person"]

\* a JSON object the schema rejects: required fields are missing
PartialObject == [document |-> "contract", domain |-> "Law"]

NoPersona ==
    [document |-> "", domain |-> "", subject |-> "", expertise |-> "",
     qualification |-> "", style |-> "", tone |-> "", voice |-> ""]

\* What the backend can do with the persona request.  http: "ok" or
\* "request_error" (network error, timeout, non-2xx); body: the shape of the
\* JSON body; json: whether the message content is JSON; obj: the object.
PersonaResponses ==
    {[http |-> "request_error", body |-> "none", json |-> FALSE, obj |-> NoPersona],
     [http |-> "ok", body |-> "content", json |-> TRUE, obj |-> AerospacePersona],
     [http |-> "ok", body |-> "content", json |-> TRUE, obj |-> LegalPersona],
     [http |-> "ok", body |-> "content", json |-> TRUE, obj |-> PartialObject],
     [http |-> "ok", body |-> "content", json |-> FALSE, obj |-> NoPersona],
     [http |-> "ok", body |-> "no_choices_key", json |-> FALSE, obj |-> NoPersona],
     [http |-> "ok", body |-> "no_message_key", json |-> FALSE, obj |-> NoPersona],
     [http |-> "ok", body |-> "empty_choices", json |-> FALSE, obj |-> NoPersona]}

\* SystemPromptOutput.parse_raw: the content must be a JSON object that has
\* every field of the schema
ParseRawOk(resp) ==
    /\ resp.body = "content"
    /\ resp.json
    /\ PersonaFields \subseteq DOMAIN resp.obj

PersonaErrorText == "Error: Unable to generate system prompt due to network issues or API error."

ValidationErrorText == "Error: Unable to parse the system prompt output. Validation error"

\* The value generate_system_prompt returns, tagged with its Python type, or
\* the exception that leaves it
generate_system_prompt(resp) ==
    IF resp.http = "request_error"
    THEN [raised |-> FALSE, type |-> "str", persona |-> NoPersona,
          text |-> PersonaErrorText]
    ELSE IF resp.body = "empty_choices"
    THEN [raised |-> TRUE, type |-> "IndexError", persona |-> NoPersona,
          text |-> "list index out of range"]
    ELSE IF ParseRawOk(resp)
    THEN [raised |-> FALSE, type |-> "SystemPromptOutput",
          persona |-> [f \in PersonaFields |-> resp.obj[f]], text |-> ""]
    ELSE [raised |-> FALSE, type |-> "str", persona |-> NoPersona,
          text |-> ValidationErrorText]

NoPromptData == [raised |-> FALSE, type |-> "unset", persona |-> NoPersona, text |-> ""]

DefaultPromptContent == "Default system prompt. The system prompt could not be generated."

PersonaPromptContent(p) ==
    "You are an expert in " \o p.domain \o " " \o p.subject
    \o " with an expertise in " \o p.expertise
    \o " and qualification of " \o p.qualification
    \o ". Your response should be " \o p.style \o ", " \o p.tone
    \o ", and in a " \o p.voice \o " voice."

\* process_pdf_pages: the isinstance(system_prompt_data, dict) branch
BuildSystemPrompt(data) ==
    IF data.type = "dict"
    THEN [role |-> "system", content |-> PersonaPromptContent(data.persona)]
    ELSE [role |-> "system", content |-> DefaultPromptContent]

NoPrompt == [role |-> "", content |-> ""]

----------------------------------------------------------------------------
(* Batches *)

batch_size == 5

\* mutant: the last, shorter batch is dropped
PageBatchesDropShort(total_pages) ==
    [k \in 1..(total_pages \div batch_size) |->
        PyRange((k - 1) * batch_size, k * batch_size)]

\* [range(i, min(i + batch_size, total_pages))
\*     for i in range(0, total_pages, batch_size)]
PageBatches(total_pages) ==
    [k \in 1..((total_pages + batch_size - 1) \div batch_size) |->
        PyRange((k - 1) * batch_size,
                Min((k - 1) * batch_size + batch_size, total_pages))]

----------------------------------------------------------------------------
(* Pages of a document and the texts around them *)

TextPage ==
    [images |-> 0, drawings |-> FALSE, text_nonempty |-> TRUE,
     page_area |-> 10, text_area |-> 6, render_fails |-> FALSE]

ScannedPage ==
    [images |-> 1, drawings |-> FALSE, text_nonempty |-> FALSE,
     page_area |-> 10, text_area |-> 0, render_fails |-> FALSE]

ChartPage ==
    [images |-> 0, drawings |-> TRUE, text_nonempty |-> TRUE,
     page_area |-> 10, text_area |-> 2, render_fails |-> FALSE]

BlankPage ==
    [images |-> 0, drawings |-> FALSE, text_nonempty |-> FALSE,
     page_area |-> 10, text_area |-> 0, render_fails |-> FALSE]

\* A document layout repeats a short pattern of page kinds
TextLayout == <<TextPage>>

ScanLayout == <<ScannedPage, TextPage>>

SlideLayout == <<TextPage, ChartPage, BlankPage>>

\* features of the page with 0-based index i
PageAt(layout, i) == layout[(i % Len(layout)) + 1]

PageText(n) == "text of page " \o ToString(n)

SummaryText(n) == "summary of page " \o ToString(n)

SummarizeErrorText(n) ==
    "Error: Unable to summarize page " \o ToString(n)
    \o " due to network issues or API error."

ExplanationText(n) == "explanation of page " \o ToString(n)

ExplainErrorText == "Error: Unable to fetch image explanation due to network issues or API error."

PageErrorSentinel == "Error in processing this page"

----------------------------------------------------------------------------
(* process_page_batch: one iteration of the loop over the batch *)

\* what a call meets: for the two requests.post calls "silent" is a backend
\* that never answers
Outcomes ==
    [load : {"ok", "raise"},
     summarize : {"ok", "request_error", "silent", "raise"},
     render : {"ok", "raise"},
     explain : {"ok", "request_error", "silent", "raise"}]

\* mutant: requests.post without a timeout waits on a silent backend
AwaitResponseNoTimeout(outcome) == outcome

\* requests.post(..., timeout=10): a silent backend ends the call with
\* requests.Timeout, a RequestException like any other
AwaitResponse(outcome) ==
    IF outcome = "silent" THEN "request_error" ELSE outcome

\* the outcome as the iteration sees it, both gateway calls awaited
Awaited(o) ==
    [o EXCEPT !.summarize = AwaitResponse(@), !.explain = AwaitResponse(@)]

\* no call of the iteration is still waiting
Resolved(o) == o.summarize # "silent" /\ o.explain # "silent"

\* failures an outcome injects (a backend that is down is not counted)
FaultCount(o, be) ==
    (IF o.load = "ok" THEN 0 ELSE 1)
    + (IF o.summarize = "ok" \/ be \in {"summarize_always_raises", "silent"}
       THEN 0 ELSE 1)
    + (IF o.render = "ok" THEN 0 ELSE 1)
    + (IF o.explain = "ok" THEN 0 ELSE 1)

\* An outcome names only failures of calls the iteration reaches: nothing
\* follows a failed load_page or a raising summarize_page, and
\* get_image_explanation is called for flagged pages only
Reached(o, features) ==
    /\ o.load = "raise" => o.summarize = "ok"
    /\ (o.load = "raise" \/ o.summarize = "raise") =>
           (o.render = "ok" /\ o.explain = "ok")
    /\ o.explain # "ok" =>
           detect_ocr_images_and_vector_graphics_in_pdf(
               [features EXCEPT !.render_fails = (o.render = "raise")],
               DefaultThreshold) # NoneVal

\* mutant: the error record keeps the 0-based loop index
ErrorRecordZeroBased(page_number) ==
    [page_number |-> page_number, full_text |-> "",
     text_summary |-> PageErrorSentinel, image_analysis |-> <<>>]

\* mutant: the error record carries no summary
ErrorRecordNoSummary(page_number) ==
    [page_number |-> page_number + 1, full_text |-> "",
     text_summary |-> "", image_analysis |-> <<>>]

\* the record of the except branch
ErrorRecord(page_number) ==
    [page_number |-> page_number + 1, full_text |-> "",
     text_summary |-> PageErrorSentinel, image_analysis |-> <<>>]

\* summarize_page: the summary, or the error string of its except branch
\* (an exception that is no RequestException leaves it: outcome "raise")
summarize_page(page_number, outcome) ==
    IF outcome = "ok" THEN SummaryText(page_number)
    ELSE SummarizeErrorText(page_number)

\* get_image_explanation: the explanation, or the error string
get_image_explanation(page_number, outcome) ==
    IF outcome = "ok" THEN ExplanationText(page_number) ELSE ExplainErrorText

\* mutant: every page is sent to get_image_explanation
NeedsExplanationAlways(image_data) == TRUE

\* line 72, if image_data: the classifier returned an image, not None
NeedsExplanation(image_data) == image_data # NoneVal

\* mutant: the previous summary follows the stored record of a failed page
PreviousAfterFailureSentinel(prev) == PageErrorSentinel

\* previous_summary after an iteration that ended in the except branch
\* before summarize_page returned: the assignment of line 67 was not reached
PreviousAfterFailure(prev) == prev

\* The iteration for the 0-based page_number: the record appended to
\* batch_data, the new previous_summary, whether summarize_page and
\* get_image_explanation were called, and what summarize_page returned
\* (None when it was not called or raised).
ProcessPageStep(page_number, prev, features, o) ==
    IF o.load = "raise"
    THEN [record |-> ErrorRecord(page_number),
          previous_summary |-> PreviousAfterFailure(prev),
          summarized |-> FALSE, returned |-> NoneVal, explained |-> FALSE]
    ELSE IF o.summarize = "raise"
    THEN [record |-> ErrorRecord(page_number),
          previous_summary |-> PreviousAfterFailure(prev),
          summarized |-> TRUE, returned |-> NoneVal, explained |-> FALSE]
    ELSE
      LET text == IF features.text_nonempty THEN PageText(page_number + 1) ELSE ""
          summary == summarize_page(page_number + 1, o.summarize)
          image_data ==
              detect_ocr_images_and_vector_graphics_in_pdf(
                  [features EXCEPT !.render_fails = (o.render = "raise")],
                  DefaultThreshold)
      IN IF ~NeedsExplanation(image_data)
         THEN [record |-> [page_number |-> page_number + 1, full_text |-> text,
                           text_summary |-> summary, image_analysis |-> <<>>],
               previous_summary |-> summary,
               summarized |-> TRUE, returned |-> summary, explained |-> FALSE]
         ELSE IF o.explain = "raise"
         THEN [record |-> ErrorRecord(page_number),
               previous_summary |-> summary,
               summarized |-> TRUE, returned |-> summary, explained |-> TRUE]
         ELSE [record |->
                 [page_number |-> page_number + 1, full_text |-> text,
                  text_summary |-> summary,
                  image_analysis |->
                     <<[page_number |-> page_number + 1,
                        explanation |->
                           get_image_explanation(page_number + 1, o.explain)]>>],
               previous_summary |-> summary,
               summarized |-> TRUE, returned |-> summary, explained |-> TRUE]

----------------------------------------------------------------------------
(* Sorting document_data["pages"] by page_number *)

\* the place of s[i] in the sorted list: after the records with a smaller
\* page_number and after those with the same page_number that stood before it
SortedPosition(s, i) ==
    Cardinality({j \in 1..Len(s) :
                    \/ s[j].page_number < s[i].page_number
                    \/ s[j].page_number = s[i].page_number /\ j < i}) + 1

SortList(s) ==
    [k \in 1..Len(s) |-> s[CHOOSE i \in 1..Len(s) : SortedPosition(s, i) = k]]

\* mutant: the list is returned in collection order
SortSkipped(s) == s

\* list.sort(key=lambda x: x["page_number"]), a stable sort
SortByPageNumber(s) == SortList(s)

----------------------------------------------------------------------------
(* process_pdf_pages *)

\* uploaded files: the name as [stem, ext] and the layout of the pages
Uploads ==
    {[name |-> [stem |-> "report", ext |-> "PDF"], layout |-> TextLayout],
     [name |-> [stem |-> "scan", ext |-> "pdf"], layout |-> ScanLayout],
     [name |-> [stem |-> "slides", ext |-> "pptx"], layout |-> SlideLayout]}

\* str.lower() on the extensions above
Lower(ext) == IF ext = "PDF" THEN "pdf" ELSE ext

\* file_name.lower().endswith('.pdf')
IsPdfName(name) == Lower(name.ext) = "pdf"

FullName(name) == name.stem \o "." \o name.ext

NoResult == [status |-> "none", file_name |-> "", stage |-> ""]

NoCls == [state |-> "unused"]

NoPart == [total_pages |-> 0, batches |-> <<>>, state |-> "unused"]

NoScript == [state |-> "unused"]

InitSessionIdle ==
    /\ payloads = <<>>
    /\ script = NoScript

Batches == 1..Len(page_batches)

InitIdle ==
    /\ pc = "start"
    /\ doc_open = FALSE
    /\ system_prompt_data = NoPromptData
    /\ system_prompt = NoPrompt
    /\ page_batches = <<>>
    /\ futures = <<>>
    /\ w_pos = <<>>
    /\ previous_summary = <<>>
    /\ batch_data = <<>>
    /\ collected = <<>>
    /\ pages = <<>>
    /\ result = NoResult
    /\ summarize_calls = <<>>
    /\ explain_calls = EmptyBag
    /\ faults = 0

Init ==
    /\ mode = "pipeline"
    /\ \E u \in Uploads, n \in 0..MaxPages :
         file = [name |-> u.name, layout |-> u.layout, total_pages |-> n]
    /\ backend \in {"flaky", "summarize_always_raises", "silent"}
    /\ InitIdle
    /\ cls = NoCls
    /\ part = NoPart
    /\ documents = <<>>
    /\ chat_history = <<>>
    /\ last_call = "none"
    /\ InitSessionIdle

Raise(stage) ==
    /\ pc' = "raised"
    /\ result' = [status |-> "raised", file_name |-> FullName(file.name),
                  stage |-> stage]

\* lines 99-110: read or convert the upload, fitz.open, len(pdf_document)
OpenDocument ==
    /\ mode = "pipeline"
    /\ pc = "start"
    /\ \E outcome \in {"ok", "convert_error", "open_error"} :
         /\ outcome = "convert_error" => ~IsPdfName(file.name)
         /\ IF outcome = "ok"
            THEN /\ doc_open' = TRUE
                 /\ pc' = "opened"
                 /\ UNCHANGED result
            ELSE /\ Raise(outcome)
                 /\ UNCHANGED doc_open
    /\ UNCHANGED <<mode, file, backend, system_prompt_data, system_prompt,
                   page_batches, futures, w_pos, previous_summary, batch_data,
                   collected, pages, summarize_calls, explain_calls, faults,
                   cls, part, chatVars>>

\* lines 112-117: the text of the first min(3, total_pages) pages
SampleContent ==
    /\ mode = "pipeline"
    /\ pc = "opened"
    /\ \E load_ok \in BOOLEAN :
         /\ ~load_ok => file.total_pages > 0
         /\ IF load_ok
            THEN pc' = "sampled" /\ UNCHANGED result
            ELSE Raise("sample_error")
    /\ UNCHANGED <<mode, file, backend, doc_open, system_prompt_data,
                   system_prompt, page_batches, futures, w_pos,
                   previous_summary, batch_data, collected, pages,
                   summarize_calls, explain_calls, faults, cls, part, chatVars>>

\* lines 119-149: generate_system_prompt, the system prompt, the batches
GeneratePersona ==
    /\ mode = "pipeline"
    /\ pc = "sampled"
    /\ \E resp \in PersonaResponses :
         LET data == generate_system_prompt(resp) IN
         IF data.raised
         THEN /\ Raise("persona_error")
              /\ UNCHANGED <<system_prompt_data, system_prompt, page_batches>>
         ELSE /\ system_prompt_data' = data
              /\ system_prompt' = BuildSystemPrompt(data)
              /\ page_batches' = PageBatches(file.total_pages)
              /\ pc' = "prompted"
              /\ UNCHANGED result
    /\ UNCHANGED <<mode, file, backend, doc_open, futures, w_pos,
                   previous_summary, batch_data, collected, pages,
                   summarize_calls, explain_calls, faults, cls, part, chatVars>>

\* line 153: executor.submit for every batch; each call of
\* process_page_batch starts with its locals of lines 56-57
SubmitBatches ==
    /\ mode = "pipeline"
    /\ pc = "prompted"
    /\ futures' = [b \in Batches |-> "running"]
    /\ w_pos' = [b \in Batches |-> 1]
    /\ previous_summary' = [b \in Batches |-> ""]
    /\ batch_data' = [b \in Batches |-> <<>>]
    /\ summarize_calls' = [b \in Batches |-> <<>>]
    /\ pc' = "collecting"
    /\ UNCHANGED <<mode, file, backend, doc_open, system_prompt_data,
                   system_prompt, page_batches, collected, pages, result,
                   explain_calls, faults, cls, part, chatVars>>

\* lines 59-91: one iteration of a worker's loop
ProcessPage(b) ==
    /\ mode = "pipeline"
    /\ b \in DOMAIN futures
    /\ futures[b] = "running"
    /\ w_pos[b] <= Len(page_batches[b])
    /\ \E o \in Outcomes :
         /\ (backend = "summarize_always_raises" /\ o.load = "ok")
               => o.summarize = "raise"
         /\ (backend = "silent" /\ o.load = "ok") => o.summarize = "silent"
         /\ backend # "silent" => Resolved(o)
         /\ faults + FaultCount(o, backend) <= MaxFaults
         /\ Reached(o, PageAt(file.layout, page_batches[b][w_pos[b]]))
         /\ Resolved(Awaited(o))
         /\ LET page_number == page_batches[b][w_pos[b]]
                step == ProcessPageStep(page_number, previous_summary[b],
                                        PageAt(file.layout, page_number),
                                        Awaited(o))
            IN /\ batch_data' = [batch_data EXCEPT ![b] = Append(@, step.record)]
               /\ previous_summary' =
                      [previous_summary EXCEPT ![b] = step.previous_summary]
               /\ summarize_calls' =
                      IF step.summarized
                      THEN [summarize_calls EXCEPT ![b] =
                              Append(@, [page_number |-> page_number + 1,
                                         previous_summary |-> previous_summary[b],
                                         system_prompt |-> system_prompt,
                                         returned |-> step.returned])]
                      ELSE summarize_calls
               /\ explain_calls' =
                      IF step.explained
                      THEN explain_calls (+) SetToBag({page_number + 1})
                      ELSE explain_calls
               /\ faults' = faults + FaultCount(o, backend)
    /\ w_pos' = [w_pos EXCEPT ![b] = @ + 1]
    /\ UNCHANGED <<mode, file, backend, pc, doc_open, system_prompt_data,
                   system_prompt, page_batches, futures, collected, pages,
                   result, cls, part, chatVars>>

\* line 93: return batch_data
FinishBatch(b) ==
    /\ mode = "pipeline"
    /\ b \in DOMAIN futures
    /\ futures[b] = "running"
    /\ w_pos[b] > Len(page_batches[b])
    /\ futures' = [futures EXCEPT ![b] = "finished"]
    /\ UNCHANGED <<mode, file, backend, pc, doc_open, system_prompt_data,
                   system_prompt, page_batches, w_pos, previous_summary,
                   batch_data, collected, pages, result, summarize_calls,
                   explain_calls, faults, cls, part, chatVars>>

\* lines 154-157: as_completed yields a finished future; extend
CollectBatch(b) ==
    /\ mode = "pipeline"
    /\ pc = "collecting"
    /\ b \in DOMAIN futures
    /\ futures[b] = "finished"
    /\ b \notin Range(collected)
    /\ pages' = pages \o batch_data[b]
    /\ collected' = Append(collected, b)
    /\ UNCHANGED <<mode, file, backend, pc, doc_open, system_prompt_data,
                   system_prompt, page_batches, futures, w_pos,
                   previous_summary, batch_data, result, summarize_calls,
                   explain_calls, faults, cls, part, chatVars>>

\* mutant: the document is closed without waiting for the futures
ReadyToCloseAny(done, submitted) == TRUE

\* lines 152-159: the loop over as_completed ends, and the with block is
\* left, when every submitted future has been yielded
ReadyToClose(done, submitted) == Range(done) = submitted

\* lines 160-167: the executor is left, close, sort, return
CloseAndReturn ==
    /\ mode = "pipeline"
    /\ pc = "collecting"
    /\ ReadyToClose(collected, Batches)
    /\ doc_open' = FALSE
    /\ pages' = SortByPageNumber(pages)
    /\ result' = [status |-> "returned", file_name |-> FullName(file.name),
                  stage |-> ""]
    /\ pc' = "returned"
    /\ UNCHANGED <<mode, file, backend, system_prompt_data, system_prompt,
                   page_batches, futures, w_pos, previous_summary, batch_data,
                   collected, summarize_calls, explain_calls, faults, cls,
                   part, chatVars>>

Next ==
    \/ OpenDocument
    \/ SampleContent
    \/ GeneratePersona
    \/ SubmitBatches
    \/ \E b \in Batches : ProcessPage(b)
    \/ \E b \in Batches : FinishBatch(b)
    \/ \E b \in Batches : CollectBatch(b)
    \/ CloseAndReturn

Spec == Init /\ [][Next]_vars

----------------------------------------------------------------------------
(* The classifier applied to single pages *)

IdleFile ==
    [name |-> [stem |-> "report", ext |-> "PDF"], layout |-> TextLayout,
     total_pages |-> 0]

InitClassify ==
    /\ mode = "classify"
    /\ cls \in [state : {"input"}, page : PageFeatures, threshold : Thresholds,
                utils : {"pending"}, legacy : {"pending"}]
    /\ file = IdleFile
    /\ backend = "flaky"
    /\ InitIdle
    /\ part = NoPart
    /\ documents = <<>>
    /\ chat_history = <<>>
    /\ last_call = "none"
    /\ InitSessionIdle

Classify ==
    /\ mode = "classify"
    /\ cls.state = "input"
    /\ cls' = [cls EXCEPT
                 !.state = "done",
                 !.utils = detect_ocr_images_and_vector_graphics_in_pdf(
                               cls.page, cls.threshold),
                 !.legacy = detect_legacy(cls.page, cls.threshold)]
    /\ UNCHANGED <<mode, pipelineVars, part, chatVars>>

NextClassify == Classify

SpecClassify == InitClassify /\ [][NextClassify]_vars

----------------------------------------------------------------------------
(* The partition into batches applied to page counts *)

InitPartition ==
    /\ mode = "partition"
    /\ part \in [total_pages : 0..MaxPartitionPages, batches : {<<>>},
                 state : {"input"}]
    /\ file = IdleFile
    /\ backend = "flaky"
    /\ InitIdle
    /\ cls = NoCls
    /\ documents = <<>>
    /\ chat_history = <<>>
    /\ last_call = "none"
    /\ InitSessionIdle

Partition ==
    /\ mode = "partition"
    /\ part.state = "input"
    /\ part' = [part EXCEPT !.state = "done",
                            !.batches = PageBatches(part.total_pages)]
    /\ UNCHANGED <<mode, pipelineVars, cls, chatVars>>

NextPartition == Partition

SpecPartition == InitPartition /\ [][NextPartition]_vars

----------------------------------------------------------------------------
(* main.py: the chat session, with ask_question of azure_api.py *)

Prompts == {"", "q1", "q2"}

\* what the backend does with the question request
QuestionOutcomes == {"ok", "http_error", "network_error", "timeout"}

AnswerText(q) == "answer to " \o q

HttpErrorText == "Error: 500, Internal Server Error"

AnswerFailedText == "Unable to answer the question due to network issues or API error."

\* azure_api.ask_question: no try/except, no timeout, status_code checked
\* by hand; a non-200 response becomes the returned string
AzureAskQuestion(question, outcome) ==
    CASE outcome = "ok" -> [kind |-> "returned", text |-> AnswerText(question)]
      [] outcome = "http_error" -> [kind |-> "returned", text |-> HttpErrorText]
      [] outcome = "network_error" -> [kind |-> "raised", text |-> "ConnectionError"]
      [] outcome = "timeout" -> [kind |-> "blocked", text |-> ""]

\* utils/llm_interaction.ask_question: timeout=10, raise_for_status, every
\* RequestException becomes a raised Exception
UtilsAskQuestion(question, outcome) ==
    IF outcome = "ok"
    THEN [kind |-> "returned", text |-> AnswerText(question)]
    ELSE [kind |-> "raised", text |-> AnswerFailedText]

\* main.py line 5: from azure_api import ask_question
ask_question(question, outcome) == AzureAskQuestion(question, outcome)

SamplePages(n) ==
    [i \in 1..n |->
        [page_number |-> i, full_text |-> PageText(i),
         text_summary |-> SummaryText(i), image_analysis |-> <<>>]]

\* registered documents, in registration order
DocumentMaps ==
    {<<>>,
     <<[name |-> "report.PDF", pages |-> SamplePages(2)]>>,
     <<[name |-> "report.PDF", pages |-> SamplePages(2)],
       [name |-> "scan.pdf", pages |-> SamplePages(1)]>>}

InitChat ==
    /\ mode = "chat"
    /\ documents \in DocumentMaps
    /\ chat_history = <<>>
    /\ last_call = "none"
    /\ InitSessionIdle
    /\ file = IdleFile
    /\ backend = "flaky"
    /\ InitIdle
    /\ cls = NoCls
    /\ part = NoPart

\* main.py lines 16-21 (reached from line 100 when documents is not empty)
handle_question(prompt, outcome) ==
    /\ mode = "chat"
    /\ documents # <<>>
    /\ last_call # "blocked"
    /\ Len(chat_history) < MaxTurns
    /\ IF prompt = ""
       THEN /\ last_call' = "skipped"
            /\ UNCHANGED chat_history
       ELSE LET answer == ask_question(prompt, outcome) IN
            /\ last_call' = answer.kind
            /\ chat_history' =
                  IF answer.kind = "returned"
                  THEN Append(chat_history,
                              [question |-> prompt, answer |-> answer.text])
                  ELSE chat_history
    /\ UNCHANGED <<mode, pipelineVars, cls, part, documents, payloads, script>>

NextChat == \E prompt \in Prompts, outcome \in QuestionOutcomes :
                handle_question(prompt, outcome)

SpecChat == InitChat /\ [][NextChat]_vars

----------------------------------------------------------------------------
(* Properties of the pipeline's result *)

PageNumbers == {pages[i].page_number : i \in 1..Len(pages)}

\* C1 (page coverage): when process_pdf_pages has returned, the pages list
\* holds exactly total_pages records and their page_number values are
\* exactly 1..total_pages, whatever failed on the way and in whatever order
\* the batches were collected.
PageCoverage ==
    pc = "returned" =>
        /\ Len(pages) = file.total_pages
        /\ PageNumbers = 1..file.total_pages

\* a run over two batches with an error record, collected out of order
PageCoverageWitness ==
    /\ pc = "returned"
    /\ Len(page_batches) = 2
    /\ collected = <<2, 1>>
    /\ \E i \in 1..Len(pages) : pages[i].text_summary = PageErrorSentinel
    /\ \E i \in 1..Len(pages) : pages[i].text_summary # PageErrorSentinel

\* C2 (ordering): the returned page sequence is strictly ascending by
\* page_number, whatever order as_completed yielded the batches in.
Ordering ==
    pc = "returned" =>
        \A i \in 1..(Len(pages) - 1) :
            pages[i].page_number < pages[i + 1].page_number

\* the second batch was yielded before the first
OrderingWitness ==
    /\ pc = "returned"
    /\ Len(collected) = 2
    /\ collected[1] = 2
    /\ Len(pages) = MaxPages

RECURSIVE Flatten(_)
Flatten(ss) == IF ss = <<>> THEN <<>> ELSE Head(ss) \o Flatten(Tail(ss))

\* C3 (batch partition): the batches are contiguous and in increasing
\* order (their concatenation is 0, 1, ..., total_pages - 1, so every page
\* index lies in exactly one batch), every batch but the last has 5 pages,
\* the last has 1 to 5, 12 pages give batches of 5, 5 and 2 pages, and 0
\* pages give no batch.
BatchPartition ==
    part.state = "done" =>
        LET bs == part.batches
            n == part.total_pages
        IN /\ Flatten(bs) = PyRange(0, n)
           /\ \A k \in 1..(Len(bs) - 1) : Len(bs[k]) = 5
           /\ Len(bs) > 0 => Len(bs[Len(bs)]) \in 1..5
           /\ n = 12 => [k \in 1..Len(bs) |-> Len(bs[k])] = <<5, 5, 2>>
           /\ n = 0 => bs = <<>>

BatchPartitionWitness ==
    /\ part.state = "done"
    /\ part.total_pages = 12
    /\ Len(part.batches) = 3

----------------------------------------------------------------------------
(* Summary chaining inside a batch *)

\* 1-based page number of the first page of batch b
FirstPage(b) == page_batches[b][1] + 1

\* the record process_page_batch stored for the 1-based page k of batch b
RecordOf(b, k) == batch_data[b][k - FirstPage(b) + 1]

\* the calls of batch b are for pages of the batch, in increasing order
CallsInOrder(b) ==
    \A j \in 1..Len(summarize_calls[b]) :
        /\ summarize_calls[b][j].page_number - 1 \in Range(page_batches[b])
        /\ j > 1 => summarize_calls[b][j - 1].page_number
                        < summarize_calls[b][j].page_number

\* what the latest summarize_page call before call j of batch b returned;
\* "" when none has returned
RECURSIVE LastReturned(_, _)
LastReturned(b, j) ==
    IF j = 1 THEN ""
    ELSE IF summarize_calls[b][j - 1].returned # NoneVal
         THEN summarize_calls[b][j - 1].returned
         ELSE LastReturned(b, j - 1)

\* C4 as stated: every page but the first of its batch is summarized with
\* the text_summary stored in the record of the page before it, also when
\* that record is the error record.
SummaryChainingAsStated ==
    \A b \in DOMAIN summarize_calls :
        /\ CallsInOrder(b)
        /\ \A j \in 1..Len(summarize_calls[b]) :
             LET c == summarize_calls[b][j] IN
             c.previous_summary =
                 IF c.page_number = FirstPage(b) THEN ""
                 ELSE RecordOf(b, c.page_number - 1).text_summary

\* C4 (summary chaining, amended): within a batch summarize_page is called
\* in strictly increasing page order; the first page of a batch is
\* summarized with an empty previous summary; every other page is
\* summarized with what the latest summarize_page call of the same batch
\* that returned has returned (empty when none has), which is the
\* text_summary stored for the page before it whenever that page did not
\* end in the error record; nothing of another batch is ever passed.
SummaryChaining ==
    \A b \in DOMAIN summarize_calls :
        /\ CallsInOrder(b)
        /\ \A j \in 1..Len(summarize_calls[b]) :
             LET c == summarize_calls[b][j] IN
             /\ c.previous_summary = LastReturned(b, j)
             /\ c.page_number = FirstPage(b) => c.previous_summary = ""
             /\ (/\ c.page_number # FirstPage(b)
                 /\ RecordOf(b, c.page_number - 1).text_summary
                        # PageErrorSentinel)
                  => c.previous_summary
                        = RecordOf(b, c.page_number - 1).text_summary
             /\ c.previous_summary # "" =>
                  \E i \in 1..(j - 1) :
                      summarize_calls[b][i].returned = c.previous_summary

\* a page summarized right after a failed page, with the summary of the
\* page before the failed one, while the second batch started empty
SummaryChainingWitness ==
    /\ Len(summarize_calls) = 2
    /\ Len(summarize_calls[2]) > 0
    /\ summarize_calls[2][1].previous_summary = ""
    /\ \E j \in 1..Len(summarize_calls[1]) :
         LET c == summarize_calls[1][j] IN
         /\ c.page_number > 2
         /\ RecordOf(1, c.page_number - 1).text_summary = PageErrorSentinel
         /\ c.previous_summary = SummaryText(c.page_number - 2)

----------------------------------------------------------------------------
(* Degradation when summarize_page raises on every call *)

\* C5 (graceful degradation): with a summarize_page that raises on every
\* call, process_pdf_pages fails only before any batch was submitted (open,
\* conversion, sampling, persona), never because of summarize_page; and
\* when it has returned, every page is there and every text_summary is the
\* sentinel "Error in processing this page".
GracefulDegradation ==
    backend = "summarize_always_raises" =>
        /\ pc = "raised" =>
             /\ result.stage \in {"open_error", "convert_error",
                                  "sample_error", "persona_error"}
             /\ summarize_calls = <<>>
        /\ pc = "returned" =>
             /\ Len(pages) = file.total_pages
             /\ \A i \in 1..Len(pages) :
                  /\ pages[i].text_summary = PageErrorSentinel
                  /\ pages[i].text_summary # ""

\* a two-batch document returned although every summarize_page call raised
GracefulDegradationWitness ==
    /\ backend = "summarize_always_raises"
    /\ pc = "returned"
    /\ Len(pages) = MaxPages
    /\ \A b \in DOMAIN summarize_calls :
         /\ Len(summarize_calls[b]) > 0
         /\ \A j \in 1..Len(summarize_calls[b]) :
              summarize_calls[b][j].returned = NoneVal

----------------------------------------------------------------------------
(* The persona of a document *)

AllSummarizeCalls ==
    UNION {Range(summarize_calls[b]) : b \in DOMAIN summarize_calls}

\* C6 (persona fallback): a failed persona generation never makes
\* process_pdf_pages raise; the document is processed with all its pages
\* and the default system prompt is returned.
PersonaFallback ==
    /\ ~(pc = "raised" /\ result.stage = "persona_error")
    /\ (pc = "returned" /\ system_prompt_data.type = "str") =>
          /\ system_prompt.content = DefaultPromptContent
          /\ Len(pages) = file.total_pages

\* C7 (derived persona is used): once generate_system_prompt has returned a
\* validated persona, the system prompt of the document, the one passed to
\* every summarize_page call and returned, is built from the persona's
\* fields; the default prompt stands only for a failed generation.
DerivedPersonaUsed ==
    system_prompt_data.type = "SystemPromptOutput" =>
        /\ system_prompt.content = PersonaPromptContent(system_prompt_data.persona)
        /\ system_prompt.content # DefaultPromptContent
        /\ \A c \in AllSummarizeCalls : c.system_prompt = system_prompt

----------------------------------------------------------------------------
(* The classifier's decisions *)

Flagged(r) == r = "base64_image"

\* C8 (classifier boundary cases), for detection that raises no exception:
\* a page with text area 0 and neither images nor vector graphics is not
\* flagged; a page with text area 0 and an embedded image is flagged under
\* a positive threshold; a page whose coverage equals the threshold is not
\* flagged.
ClassifierBoundary ==
    cls.state = "done" =>
        LET p == cls.page
            thr == cls.threshold
        IN /\ (p.text_area = 0 /\ p.images = 0 /\ ~p.drawings)
                  => ~Flagged(cls.utils)
           /\ (p.text_area = 0 /\ p.images > 0 /\ thr[1] > 0 /\ ~p.render_fails)
                  => Flagged(cls.utils)
           /\ (p.page_area > 0 /\ p.text_area * thr[2] = thr[1] * p.page_area)
                  => ~Flagged(cls.utils)

\* the three cases, each classified: an image page at coverage 4/10 under
\* the threshold 0.4 among them
ClassifierBoundaryWitness ==
    /\ cls.state = "done"
    /\ cls.page.page_area = 10
    /\ cls.page.text_area = 4
    /\ cls.page.images = 1
    /\ ~cls.page.render_fails
    /\ cls.threshold = <<4, 10>>
    /\ cls.utils = NoneVal

CoverageBelow(p, thr) == FracLess(TextCoverage(p.text_area, p.page_area), thr)

\* C9 as stated: the page is flagged exactly when its text area is 0, or it
\* has an image or a vector graphic, non-empty text and a coverage below
\* the threshold.
ClassifierRuleAsStated ==
    cls.state = "done" =>
        LET p == cls.page IN
        Flagged(cls.utils) <=>
            \/ p.text_area = 0
            \/ /\ p.images > 0 \/ p.drawings
               /\ p.text_nonempty
               /\ CoverageBelow(p, cls.threshold)

\* C9 (classifier rule, amended): the classifier of the pipeline flags the
\* page exactly when it has an embedded image or a vector graphic, its
\* coverage (0 for a page without area) is strictly below the threshold
\* and detection raised no exception; a text area of 0 flags nothing by
\* itself and non-empty text is not required.  Only the older variant
\* asks for non-empty text as well, and it needs a page with area.
ClassifierRule ==
    cls.state = "done" =>
        LET p == cls.page IN
        /\ Flagged(cls.utils) <=>
              /\ p.images > 0 \/ p.drawings
              /\ CoverageBelow(p, cls.threshold)
              /\ ~p.render_fails
        /\ Flagged(cls.legacy) <=>
              /\ p.images > 0 \/ p.drawings
              /\ p.text_nonempty
              /\ p.page_area > 0
              /\ CoverageBelow(p, cls.threshold)
              /\ ~p.render_fails

\* a page without text area, images or graphics was classified, and so was
\* an image page without text
ClassifierRuleWitness ==
    /\ cls.state = "done"
    /\ cls.page.text_area = 0
    /\ cls.page.images = 1
    /\ ~cls.page.text_nonempty
    /\ ~cls.page.render_fails
    /\ cls.threshold = <<4, 10>>
    /\ Flagged(cls.utils)
    /\ ~Flagged(cls.legacy)

----------------------------------------------------------------------------
(* Answers in the chat history *)

\* C10 (question answering fails loudly): no error text is ever recorded
\* as an answer: every turn of the chat history holds the backend's answer
\* to its question, because a failed request raises.
AnswerFailsLoudly ==
    \A i \in 1..Len(chat_history) :
        /\ chat_history[i].answer # HttpErrorText
        /\ chat_history[i].answer = AnswerText(chat_history[i].question)

----------------------------------------------------------------------------
(* utils/llm_interaction.ask_question: the prompt payload *)

RECURSIVE JoinWith(_, _)
\* sep.join(lines)
JoinWith(sep, lines) ==
    IF lines = <<>> THEN ""
    ELSE IF Len(lines) = 1 THEN lines[1]
    ELSE lines[1] \o sep \o JoinWith(sep, Tail(lines))

\* lines 178-180: the explanations of a page, or the marker
ImageExplanation(image_analysis) ==
    IF image_analysis = <<>> THEN "No image analysis."
    ELSE JoinWith("\n",
             [i \in 1..Len(image_analysis) |->
                 "Page " \o ToString(image_analysis[i].page_number) \o ": "
                 \o image_analysis[i].explanation])

\* lines 182-187: the block of one page
PageBlock(page) ==
    "Page " \o ToString(page.page_number) \o "\n"
    \o "Full Text: " \o page.full_text \o "\n"
    \o "Summary: " \o page.text_summary \o "\n"
    \o "Image Analysis: " \o ImageExplanation(page.image_analysis) \o "\n\n"

RECURSIVE BlocksOfPages(_)
\* the inner loop of line 174, in list order
BlocksOfPages(ps) ==
    IF ps = <<>> THEN <<>>
    ELSE <<PageBlock(Head(ps))>> \o BlocksOfPages(Tail(ps))

RECURSIVE ContentBlocksReversed(_)
\* mutant: the documents are visited last to first
ContentBlocksReversed(docs) ==
    IF docs = <<>> THEN <<>>
    ELSE ContentBlocksReversed(Tail(docs)) \o BlocksOfPages(Head(docs).pages)

RECURSIVE ContentBlocks(_)
\* the loop of line 173 over documents.items(), in insertion order
ContentBlocks(docs) ==
    IF docs = <<>> THEN <<>>
    ELSE BlocksOfPages(Head(docs).pages) \o ContentBlocks(Tail(docs))

\* lines 190-192: one turn of the history
TurnLines(chat) ==
    "User: " \o chat.question \o "\nAssistant: " \o chat.answer \o "\n"

ConversationTurns(history) == [i \in 1..Len(history) |-> TurnLines(history[i])]

\* lines 195-213: the prompt message (the fixed instructions shortened)
PromptMessage(docs, question, history) ==
    "You are given the following content:\n---\n"
    \o JoinWith("", ContentBlocks(docs))
    \o "\n---\nPrevious responses over the current chat session: "
    \o JoinWith("", ConversationTurns(history))
    \o "\nQuestion: " \o question

FlaggedSamplePage ==
    [page_number |-> 1, full_text |-> "",
     text_summary |-> SummaryText(1),
     image_analysis |-> <<[page_number |-> 1, explanation |-> ExplanationText(1)]>>]

\* registered documents with different page records
AnswerDocumentMaps ==
    DocumentMaps \cup
    {<<[name |-> "scan.pdf", pages |-> <<FlaggedSamplePage, ErrorRecord(1)>>],
       [name |-> "report.PDF", pages |-> SamplePages(3)]>>}

AnswerHistories ==
    {<<>>,
     <<[question |-> "q1", answer |-> AnswerText("q1")]>>,
     <<[question |-> "q2", answer |-> AnswerText("q2")],
       [question |-> "q1", answer |-> HttpErrorText]>>}

InitAnswer ==
    /\ mode = "answer"
    /\ documents \in AnswerDocumentMaps
    /\ chat_history \in AnswerHistories
    /\ last_call = "none"
    /\ InitSessionIdle
    /\ file = IdleFile
    /\ backend = "flaky"
    /\ InitIdle
    /\ cls = NoCls
    /\ part = NoPart

\* utils/llm_interaction.ask_question(documents, question, chat_history):
\* builds the payload, posts it, returns the answer or raises
AskQuestion(question, outcome) ==
    /\ mode = "answer"
    /\ Len(payloads) < MaxTurns
    /\ payloads' = Append(payloads,
           [question |-> question,
            blocks |-> ContentBlocks(documents),
            turns |-> ConversationTurns(chat_history),
            prompt |-> PromptMessage(documents, question, chat_history)])
    /\ last_call' = UtilsAskQuestion(question, outcome).kind
    /\ UNCHANGED <<mode, pipelineVars, cls, part, documents, chat_history, script>>

NextAnswer == \E question \in Prompts \ {""}, outcome \in QuestionOutcomes :
                  AskQuestion(question, outcome)

SpecAnswer == InitAnswer /\ [][NextAnswer]_vars

\* the page records of all documents, in registration and stored order
AllPages == Flatten([d \in 1..Len(documents) |-> documents[d].pages])

----------------------------------------------------------------------------
(* The opened PDF document *)

\* C12 (unconditional resource release): whenever process_pdf_pages has
\* been left, by return or by raise, the PDF document is not open.
ResourceRelease ==
    pc \in {"returned", "raised"} => ~doc_open

----------------------------------------------------------------------------
(* main.py: the upload loop of lines 33-42 *)

UploadNames == {"report.PDF", "scan.pdf", "notes.pdf"}

\* the files of the uploader, each with what process_pdf_pages does for
\* it: "returned" (line 167) or "raised" (line 171)
UploadLists ==
    {fs \in UNION {[1..n -> [name : UploadNames, outcome : {"returned", "raised"}]]
                       : n \in 0..MaxUploads} :
        \A i, j \in DOMAIN fs : i # j => fs[i].name # fs[j].name}

\* a documents entry: the key and the stored value, None or the result
Placeholder(name) == [name |-> name, value |-> NoneVal, pages |-> <<>>]

Registered(name) == [name |-> name, value |-> "result", pages |-> SamplePages(1)]

Keys(docs) == {docs[i].name : i \in 1..Len(docs)}

\* docs[name] = entry: a new key goes to the end, a known key keeps its place
SetEntry(docs, entry) ==
    IF entry.name \in Keys(docs)
    THEN [i \in 1..Len(docs) |->
             IF docs[i].name = entry.name THEN entry ELSE docs[i]]
    ELSE Append(docs, entry)

\* ValueError(f"Unable to process the file {file_name}. Error: {e}")
ErrorMessage(name) == "Unable to process the file " \o name

InitUpload ==
    /\ mode = "upload"
    /\ documents \in {<<>>, <<Registered("old.pdf")>>}
    /\ \E fs \in UploadLists :
         script = [state |-> "running", files |-> fs, pos |-> 1, error |-> ""]
    /\ chat_history = <<>>
    /\ last_call = "none"
    /\ payloads = <<>>
    /\ file = IdleFile
    /\ backend = "flaky"
    /\ InitIdle
    /\ cls = NoCls
    /\ part = NoPart

\* lines 34-42: one iteration of the loop over uploaded_files; an
\* exception of process_pdf_pages leaves the loop and ends the script run
UploadFile ==
    /\ mode = "upload"
    /\ script.state = "running"
    /\ script.pos <= Len(script.files)
    /\ LET f == script.files[script.pos] IN
       IF f.name \in Keys(documents)
       THEN /\ script' = [script EXCEPT !.pos = @ + 1]
            /\ UNCHANGED documents
       ELSE IF f.outcome = "returned"
       THEN /\ documents' = SetEntry(SetEntry(documents, Placeholder(f.name)),
                                     Registered(f.name))
            /\ script' = [script EXCEPT !.pos = @ + 1]
       ELSE /\ documents' = SetEntry(documents, Placeholder(f.name))
            /\ script' = [script EXCEPT !.state = "aborted",
                                        !.error = ErrorMessage(f.name)]
    /\ UNCHANGED <<mode, pipelineVars, cls, part, chat_history, last_call, payloads>>

\* the loop is exhausted: the script run goes on to the main page
FinishUploads ==
    /\ mode = "upload"
    /\ script.state = "running"
    /\ script.pos > Len(script.files)
    /\ script' = [script EXCEPT !.state = "done"]
    /\ UNCHANGED <<mode, pipelineVars, cls, part, documents, chat_history,
                   last_call, payloads>>

\* streamlit runs the script again on the next interaction; the session
\* state and the uploaded files are kept
Rerun ==
    /\ mode = "upload"
    /\ script.state \in {"done", "aborted"}
    /\ script' = [script EXCEPT !.state = "running", !.pos = 1, !.error = ""]
    /\ UNCHANGED <<mode, pipelineVars, cls, part, documents, chat_history,
                   last_call, payloads>>

NextUpload == UploadFile \/ FinishUploads \/ Rerun

SpecUpload == InitUpload /\ [][NextUpload]_vars

\* C13 (document-level failure containment): a failure names its file, the
\* entries registered before stay as they were, the documents map holds no
\* None placeholder for a failed document, and when a script run has ended
\* every uploaded file that can be processed is registered.
FailureContainment ==
    /\ script.state = "aborted" =>
          script.error = ErrorMessage(script.files[script.pos].name)
    /\ \A i \in 1..Len(documents) : documents[i].value # NoneVal
    /\ script.state \in {"done", "aborted"} =>
          \A i \in 1..Len(script.files) :
              script.files[i].outcome = "returned"
                  => Registered(script.files[i].name) \in Range(documents)

----------------------------------------------------------------------------
(* process_pdf_pages under a scheduler that lets every thread run *)

\* the most batches a document of the model has
MaxBatches == (MaxPages + batch_size - 1) \div batch_size

\* the steps of the thread that called process_pdf_pages
Coordinator ==
    \/ OpenDocument
    \/ SampleContent
    \/ GeneratePersona
    \/ SubmitBatches
    \/ \E b \in Batches : CollectBatch(b)
    \/ CloseAndReturn

\* the steps of the pool thread running batch b
Worker(b) == ProcessPage(b) \/ FinishBatch(b)

\* every thread that can take a step is scheduled eventually; the pool of
\* line 152 has a thread for every batch of the model
FairSpec ==
    /\ Spec
    /\ WF_vars(Coordinator)
    /\ \A b \in 1..MaxBatches : WF_vars(Worker(b))

\* C14 (no hang): process_pdf_pages eventually returns or raises, and by
\* then every batch worker it submitted has finished.
NoHang ==
    <>(/\ pc \in {"returned", "raised"}
       /\ \A b \in DOMAIN futures : futures[b] = "finished")

\* a document processed against a backend that never answers: the summary
\* of a page is the error string of the timed-out call
NoHangWitness ==
    /\ backend = "silent"
    /\ pc = "returned"
    /\ \E i \in 1..Len(pages) :
         pages[i].text_summary = SummarizeErrorText(pages[i].page_number)

----------------------------------------------------------------------------
(* image analysis of the page records *)

\* the classifier returns an image for the 1-based page k of the file
ClassifierFlags(k) ==
    Flagged(detect_ocr_images_and_vector_graphics_in_pdf(
                PageAt(file.layout, k - 1), DefaultThreshold))

\* the records process_page_batch has produced so far, over all batches
ProducedRecords ==
    UNION {Range(batch_data[b]) : b \in DOMAIN batch_data}

\* C15 (image-analysis invariant): every record produced by
\* process_page_batch has at most one image_analysis entry, has one only if
\* the classifier flagged its page, and the entry carries the record's
\* page_number; get_image_explanation is called at most once per page and
\* for flagged pages only.
ImageAnalysisInvariant ==
    /\ \A r \in ProducedRecords :
         /\ Len(r.image_analysis) <= 1
         /\ r.image_analysis # <<>> =>
               /\ ClassifierFlags(r.page_number)
               /\ r.image_analysis[1].page_number = r.page_number
    /\ \A k \in BagToSet(explain_calls) :
         /\ CopiesIn(k, explain_calls) = 1
         /\ ClassifierFlags(k)

\* a batch has produced a record with an explanation and one without, and
\* a flagged page whose rendering failed went without a call
ImageAnalysisWitness ==
    /\ \E r \in ProducedRecords :
         /\ Len(r.image_analysis) = 1
         /\ r.image_analysis[1].explanation = ExplanationText(r.page_number)
    /\ \E r \in ProducedRecords :
         /\ r.image_analysis = <<>>
         /\ r.full_text # ""
         /\ ClassifierFlags(r.page_number)
         /\ r.page_number \notin BagToSet(explain_calls)
    /\ BagToSet(explain_calls) # {}

\* C16 (image-explanation failure contained to the image): the record of
\* every page get_image_explanation was called for keeps the text of the
\* page and the summary summarize_page returned, and has one image_analysis
\* entry, the explanation or the error string of the call.
ImageFailureContained ==
    \A r \in ProducedRecords :
        r.page_number \in BagToSet(explain_calls) =>
            /\ r.full_text =
                   (IF PageAt(file.layout, r.page_number - 1).text_nonempty
                    THEN PageText(r.page_number) ELSE "")
            /\ r.text_summary \in {SummaryText(r.page_number),
                                   SummarizeErrorText(r.page_number)}
            /\ Len(r.image_analysis) = 1
            /\ r.image_analysis[1].explanation
                   \in {ExplanationText(r.page_number), ExplainErrorText}

----------------------------------------------------------------------------
(* the document and the result list under the worker pool *)

\* the records of the collected batches, in the order of collection
CollectedRecords ==
    Flatten([i \in 1..Len(collected) |-> batch_data[collected[i]]])

\* C17 (no use after close, no shared writes): while a batch worker has not
\* finished the document is open, and when process_pdf_pages has returned
\* every submitted worker has finished; the pages list is the concatenation
\* of the batch results the coordinator collected, in the order it collected
\* them, sorted once at the end, so it holds every record of every collected
\* batch once, whatever the workers do in between.
NoUseAfterClose ==
    /\ \A b \in DOMAIN futures : futures[b] = "running" => doc_open
    /\ pc = "returned" =>
          /\ \A b \in Batches : futures[b] = "finished" /\ b \in Range(collected)
          /\ pages = SortByPageNumber(CollectedRecords)
    /\ pc = "collecting" => pages = CollectedRecords
    /\ Len(collected) = Cardinality(Range(collected))

\* two batches were running at once, the second was collected first, and
\* the document has been returned
NoUseAfterCloseWitness ==
    /\ pc = "returned"
    /\ collected = <<2, 1>>
    /\ Len(pages) = MaxPages
    /\ ~doc_open

====
